---- MODULE Spec2Model ----
(***************************************************************************)
(* Model of the model cache of text_to_image/runtime.py (GlobalRuntime):   *)
(* get_model, Model.as_base, load_model, execute_on_cuda,                  *)
(* get_loaded_models_by_device and offload_model_to_cpu, driven by         *)
(* generate_image calls (text_to_image/model.py).                          *)
(*                                                                         *)
(* A Model object and the pipeline it owns are created together            *)
(* (Model(pipe)) and pipe.to() returns the same pipeline, so one object    *)
(* id stands for both.  The accelerator holds `cap` pipelines: moving one  *)
(* more to it raises a CUDA out-of-memory RuntimeError.                    *)
(***************************************************************************)
EXTENDS Integers, Sequences, FiniteSets, TLC

\* ---------------------------------------------------------------- bounds
MaxCap == 2          \* accelerator capacities explored: 1..MaxCap
MaxCalls == 4        \* generate_image calls of the sequential specification
MaxConcCalls == 2    \* generate_image calls of the concurrent specification
MaxWarmCalls == 2    \* concurrent calls on a cache that already holds an entry
MaxScopeCalls == 2   \* calls of the specification with customizations
MaxSamplerCalls == 2 \* concurrent calls with a sampler override
MaxLoras == 2        \* overlays a call may request: 0..MaxLoras
MaxResolves == 3     \* download_to calls of the download specification
RemoteSize == 2      \* chunks (CHUNK_SIZE) of a remote file

Keys == {"A", "B", "C"}      \* model keys (model_name, arch)
Threads == {1, 2}            \* request threads of the served function
SeqThreads == {1}            \* the sequential specification runs one of them
None == 0
ObjIds == 1..(Cardinality(Keys) + Cardinality(Threads))
NoKey == "-"
NoName == "-"                \* scheduler=None
OwnScheduler == 0            \* the sampler a pipeline is loaded with
NoScheduler == -1            \* no scope entered yet
NewScheduler(t) == t         \* the instance from_config builds for call t

SUPPORTED_SCHEDULERS ==
    [n \in {"DPM++ 2M", "DPM++ 2M Karras", "DPM++ 2M SDE",
            "DPM++ 2M SDE Karras", "Euler", "Euler A", "LCM"} |->
        CASE n = "Euler" -> "EulerDiscreteScheduler"
          [] n = "Euler A" -> "EulerAncestralDiscreteScheduler"
          [] n = "LCM" -> "LCMScheduler"
          [] OTHER -> "DPMSolverMultistepScheduler"]

\* The `scheduler` arguments the calls use: none, and one name per case of
\* the compatibility test.
SchedulerInputs == {NoName, "Euler", "DPM++ 2M Karras", "LCM"}

\* pipe.scheduler.compatibles of the pipelines of each model
Compatibles(k) ==
    CASE k = "A" -> {"EulerDiscreteScheduler", "EulerAncestralDiscreteScheduler",
                     "DPMSolverMultistepScheduler"}
      [] k = "B" -> {"EulerDiscreteScheduler"}
      [] OTHER -> {}

\* The compatibility test without the LCM special case.
SchedulerAcceptedStrict(scheduler_cls_name, compatibles) ==
    scheduler_cls_name \in compatibles

\* change_scheduler: the negation of the condition that raises ValueError
SchedulerAccepted(scheduler_cls_name, compatibles) ==
    ~ ( /\ scheduler_cls_name \notin compatibles
        /\ scheduler_cls_name # "LCMScheduler" )

\* ------------------------------------------------ results and error values
Ok == [type |-> "ok", msg |-> <<>>]
NoResult == [type |-> "none", msg |-> <<>>]
CudaOomError ==
    [type |-> "RuntimeError",
     msg |-> <<"CUDA", "out", "of", "memory", "Tried", "to", "allocate">>]
AssertOomError ==
    [type |-> "RuntimeError",
     msg |-> <<"cuDNN", "INTERNAL", "ASSERT", "FAILED">>]
OtherRuntimeError ==
    [type |-> "RuntimeError", msg |-> <<"Expected", "all", "tensors">>]
OomTextValueError ==
    [type |-> "ValueError", msg |-> <<"CUDA", "out", "of", "memory">>]
PlainValueError ==
    [type |-> "ValueError", msg |-> <<"bad", "prompt">>]
KeyError == [type |-> "KeyError", msg |-> <<"model_id">>]
CompatibilityError ==
    [type |-> "ValueError",
     msg |-> <<"The", "scheduler", "is", "not", "compatible">>]
FromConfigError == [type |-> "TypeError", msg |-> <<"from_config">>]
LoraError == [type |-> "ValueError", msg |-> <<"lora">>]
UnloadError == [type |-> "RuntimeError", msg |-> <<"unload_lora_weights">>]
NotEnoughCudaMemory ==
    [type |-> "RuntimeError", msg |-> <<"Not", "enough", "CUDA", "memory">>]

InferenceErrors ==
    {CudaOomError, AssertOomError, OtherRuntimeError, OomTextValueError,
     PlainValueError}

__cuda_oom_errors ==
    {<<"CUDA", "out", "of", "memory">>, <<"INTERNAL", "ASSERT", "FAILED">>}

\* error_str in str(error)
Contains(text, sub) ==
    \E i \in 0..(Len(text) - Len(sub)) :
        \A j \in 1..Len(sub) : text[i + j] = sub[j]

\* The except clause without the signature test: every RuntimeError is
\* treated as an accelerator OOM.
IsCudaOomAnyRuntimeError(error) == error.type = "RuntimeError"

\* except RuntimeError ... any(error_str in str(error) for error_str in ...)
IsCudaOom(error) ==
    /\ error.type = "RuntimeError"
    /\ \E error_str \in __cuda_oom_errors : Contains(error.msg, error_str)

VARIABLES
    models,          \* self.models: key -> Model object (None: absent)
    order,           \* insertion order of the keys of self.models
    device,          \* pipeline.device.type of each object ("none": no object)
    last_cache_hit,  \* Model.last_cache_hit of each object
    clock,           \* time.monotonic()
    cap,             \* pipelines the accelerator can hold
    budget,          \* calls the specification still admits
    pc,              \* position of each thread
    key,             \* model_key of the thread's call
    model,           \* the Model the thread's call holds
    loaded,          \* whether the call's get_model invoked the loader
    work,            \* function passed to execute_on_cuda: "to" or "infer"
    ignored,         \* ignored_models of the running execute_on_cuda
    cached_models,   \* execute_on_cuda's local list
    target,          \* target_model_id / model_id of offload_model_to_cpu
    host_models,     \* offload_model_to_cpu's local list `models`
    runResult,       \* what execute_on_cuda returned or raised
    trace,           \* events of the running execute_on_cuda
    k0,              \* evictable entries when execute_on_cuda started
    loads,           \* loader invocations per key
    accessed,        \* keys in the order as_base refreshed them
    demoted,         \* per key: object kept on the host by the last
                     \*   demotion, -1 if that demotion dropped it, else 0
    evicted,         \* keys ever deleted from self.models
    ramWasFull,      \* is_ram_buffer_full() has returned True
    inferOom,        \* an inference has raised an OOM error
    scheduler,       \* pipe.scheduler of each object (a sampler instance)
    adapters,        \* adapters loaded into each pipeline
    fused,           \* whether adapters are fused into the pipeline's weights
    scheduler_name,  \* the call's `scheduler` argument
    n_loras,         \* len(loras) of the call
    original_scheduler, \* change_scheduler's local
    li,              \* index of the overlay being resolved / loaded
    outcome,         \* what the call returns or raises
    bodyRes,         \* outcome of the scoped body, before overlay teardown
    tdFailed,        \* a step of the overlay teardown raised
    preSched,        \* pipe.scheduler when the scope was entered
    ltrace,          \* adapter operations of the call, in order
    files,           \* cache directories: bytes at each path (Missing: none)
    moved,           \* per path: shutil.move calls that completed
    dbudget,         \* download_to calls the specification still admits
    dpc,             \* position of each thread inside download_to
    url,             \* download_to's argument
    tmp_file,        \* bytes in the thread's temporary file (Missing: none)
    total_size,      \* the response's content-length (0: not declared)
    stream,          \* bytes the response delivers before it ends
    dres             \* what download_to returned or raised

runtimeVars ==
    <<models, order, device, last_cache_hit, clock, cap, budget, pc, key,
      model, loaded, work, ignored, cached_models, target, host_models,
      runResult, trace, k0, loads, accessed, demoted, evicted, ramWasFull,
      inferOom, scheduler, adapters, fused, scheduler_name, n_loras,
      original_scheduler, li, outcome, bodyRes, tdFailed, preSched, ltrace>>

dlVars == <<files, moved, dbudget, dpc, url, tmp_file, total_size, stream,
            dres>>
vars == <<runtimeVars, dlVars>>

cacheVars == <<models, order, device, last_cache_hit>>
runVars == <<work, ignored, cached_models, target, host_models, runResult,
             trace, k0>>
histVars == <<loads, accessed, demoted, evicted, ramWasFull, inferOom>>
pipeVars == <<scheduler, adapters, fused>>
callVars == <<scheduler_name, n_loras, original_scheduler, li, outcome,
              bodyRes, tdFailed, preSched, ltrace>>
scopeVars == <<pipeVars, callVars>>

\* ------------------------------------------------------------ helpers
Range(s) == {s[i] : i \in 1..Len(s)}
Front(s) == SubSeq(s, 1, Len(s) - 1)
Last(s) == s[Len(s)]
Hit(k) == last_cache_hit[models[k]]

\* del self.models[k] on the insertion order
Without(s, k) == SelectSeq(s, LAMBDA x : x # k)

\* Objects still referenced: by the cache mapping mp or by a thread (md).
Referenced(mp, md) ==
    {mp[k] : k \in Keys} \cup {md[t] : t \in Threads}

\* Reference counting / gc.collect(): unreferenced objects disappear.
Collect(dv, mp, md) ==
    [o \in ObjIds |-> IF o \in Referenced(mp, md) THEN dv[o] ELSE "none"]

\* Attributes of objects that no longer exist are forgotten.
Forget(f, dv, dflt) == [o \in ObjIds |-> IF dv[o] = "none" THEN dflt ELSE f[o]]

FreshObj == CHOOSE o \in ObjIds :
    /\ device[o] = "none"
    /\ \A p \in ObjIds : device[p] = "none" => o <= p

CudaCount == Cardinality({o \in ObjIds : device[o] = "cuda"})

\* models.sort(key=last_cache_hit): stable, ascending
InsertByHit(s, k) ==
    LET n == Cardinality({i \in 1..Len(s) : Hit(s[i]) <= Hit(k)})
    IN  SubSeq(s, 1, n) \o <<k>> \o SubSeq(s, n + 1, Len(s))

RECURSIVE SortByHit(_)
SortByHit(s) ==
    IF s = <<>> THEN <<>> ELSE InsertByHit(SortByHit(Front(s)), Last(s))

\* The listing without its ignored_models filter.
get_loaded_models_unfiltered(dev, ignored_models) ==
    SortByHit(SelectSeq(order,
        LAMBDA model_id : device[models[model_id]] = dev))

get_loaded_models_by_device(dev, ignored_models) ==
    SortByHit(SelectSeq(order,
        LAMBDA model_id : /\ device[models[model_id]] = dev
                          /\ models[model_id] \notin ignored_models))

\* get_model with the membership test lost: every call is a miss.
KeyAbsentAlways(model_key) == TRUE

\* `model_key not in self.models`
KeyAbsent(model_key) == models[model_key] = None

\* A loop that gives up after the first demotion.
LoopContinuesFirstOnly(first_try, cached) == first_try

\* `while first_try or cached_models`
LoopContinues(first_try, cached) == first_try \/ cached # <<>>

\* list.pop(): removes and returns the last element
PopIndex(s) == Len(s)

Event(e, r, k) == [ev |-> e, res |-> r, key |-> k]

\* ------------------------------------------------------- download_to
\* A remote reference: the URL's directory part and the dot-separated
\* pieces of its last path component.
Urls ==
    { [dir |-> "a", file |-> <<"w", "safetensors">>],
      [dir |-> "b", file |-> <<"w", "safetensors">>],
      [dir |-> "a", file |-> <<"old", "ckpt">>] }
NoUrl == [dir |-> "-", file |-> <<>>]
Missing == -1

\* url.endswith(".ckpt")
EndsWithCkpt(u) == u.file # <<>> /\ Last(u.file) = "ckpt"

\* urlparse(url).path.split("/")[-1].strip(".").replace(".", "_"): the
\* pieces of the last component, joined by "_"
url_file(u) == u.file

\* md5(url.encode()).hexdigest(): a digest of the whole URL, distinct for
\* distinct URLs
url_hash(u) == <<u.dir, u.file>>

\* directory / f"{url_file}-{url_hash}" with the suffix ".safetensors"
download_path(u) ==
    [name |-> url_file(u), hash |-> url_hash(u), suffix |-> "safetensors"]

Paths == {download_path(u) : u \in Urls}

FormatError == [type |-> "ValueError", msg |-> <<"non-safetensor">>]
DownloadError == [type |-> "ValueError", msg |-> <<"download">>]
SizeError == [type |-> "ValueError", msg |-> <<"size">>]
TransportError == [type |-> "URLError", msg |-> <<"transport">>]
PathResult == [type |-> "path", msg |-> <<>>]

\* ------------------------------------------------------------- Init
\* The cache of a fresh GlobalRuntime.
InitCache ==
    /\ models = [k \in Keys |-> None]
    /\ order = <<>>
    /\ device = [o \in ObjIds |-> "none"]
    /\ last_cache_hit = [o \in ObjIds |-> 0]
    /\ clock = 1
    /\ loads = [k \in Keys |-> 0]
    /\ accessed = <<>>

\* The cache after one call for key "A" has completed: its pipeline is
\* cached on the accelerator.
InitWarmCache ==
    /\ models = [k \in Keys |-> IF k = "A" THEN 1 ELSE None]
    /\ order = <<"A">>
    /\ device = [o \in ObjIds |-> IF o = 1 THEN "cuda" ELSE "none"]
    /\ last_cache_hit = [o \in ObjIds |-> IF o = 1 THEN 1 ELSE 0]
    /\ clock = 2
    /\ loads = [k \in Keys |-> IF k = "A" THEN 1 ELSE 0]
    /\ accessed = <<"A">>

\* No call in progress.
InitLocals ==
    /\ cap \in 1..MaxCap
    /\ pc = [t \in Threads |-> "idle"]
    /\ key = [t \in Threads |-> NoKey]
    /\ model = [t \in Threads |-> None]
    /\ loaded = [t \in Threads |-> FALSE]
    /\ work = [t \in Threads |-> "to"]
    /\ ignored = [t \in Threads |-> {}]
    /\ cached_models = [t \in Threads |-> <<>>]
    /\ target = [t \in Threads |-> NoKey]
    /\ host_models = [t \in Threads |-> <<>>]
    /\ runResult = [t \in Threads |-> NoResult]
    /\ trace = [t \in Threads |-> <<>>]
    /\ k0 = [t \in Threads |-> 0]
    /\ demoted = [k \in Keys |-> 0]
    /\ evicted = {}
    /\ ramWasFull = FALSE
    /\ inferOom = FALSE
    /\ scheduler = [o \in ObjIds |-> OwnScheduler]
    /\ adapters = [o \in ObjIds |-> 0]
    /\ fused = [o \in ObjIds |-> FALSE]
    /\ scheduler_name = [t \in Threads |-> NoName]
    /\ n_loras = [t \in Threads |-> 0]
    /\ original_scheduler = [t \in Threads |-> OwnScheduler]
    /\ li = [t \in Threads |-> 1]
    /\ outcome = [t \in Threads |-> NoResult]
    /\ bodyRes = [t \in Threads |-> NoResult]
    /\ tdFailed = [t \in Threads |-> FALSE]
    /\ preSched = [t \in Threads |-> NoScheduler]
    /\ ltrace = [t \in Threads |-> <<>>]
    /\ files = [p \in Paths |-> Missing]
    /\ moved = [p \in Paths |-> 0]
    /\ dpc = [t \in Threads |-> "idle"]
    /\ url = [t \in Threads |-> NoUrl]
    /\ tmp_file = [t \in Threads |-> Missing]
    /\ total_size = [t \in Threads |-> 0]
    /\ stream = [t \in Threads |-> 0]
    /\ dres = [t \in Threads |-> NoResult]

InitCommon == InitCache /\ InitLocals

Init == InitCommon /\ budget = MaxCalls /\ dbudget = 0
InitConc == InitCommon /\ budget = MaxConcCalls /\ dbudget = 0
InitScope == InitCommon /\ budget = MaxScopeCalls /\ dbudget = 0
InitDl == InitCommon /\ budget = 0 /\ dbudget = MaxResolves
InitSampler == InitCommon /\ budget = MaxSamplerCalls /\ dbudget = 0
InitWarm ==
    InitWarmCache /\ InitLocals /\ budget = MaxWarmCalls /\ dbudget = 0

\* ------------------------------------------------------------ actions
\* generate_image: session.load_model(input.model_name, loras=...,
\* scheduler=...) is entered.
CallWith(t, k, name, n) ==
    /\ pc[t] = "idle"
    /\ UNCHANGED dlVars
    /\ budget > 0
    /\ key' = [key EXCEPT ![t] = k]
    /\ scheduler_name' = [scheduler_name EXCEPT ![t] = name]
    /\ n_loras' = [n_loras EXCEPT ![t] = n]
    /\ budget' = budget - 1
    /\ pc' = [pc EXCEPT ![t] = "get_model"]
    /\ loaded' = [loaded EXCEPT ![t] = FALSE]
    /\ runResult' = [runResult EXCEPT ![t] = NoResult]
    /\ trace' = [trace EXCEPT ![t] = <<>>]
    /\ original_scheduler' = [original_scheduler EXCEPT ![t] = OwnScheduler]
    /\ li' = [li EXCEPT ![t] = 1]
    /\ outcome' = [outcome EXCEPT ![t] = NoResult]
    /\ bodyRes' = [bodyRes EXCEPT ![t] = NoResult]
    /\ tdFailed' = [tdFailed EXCEPT ![t] = FALSE]
    /\ preSched' = [preSched EXCEPT ![t] = NoScheduler]
    /\ ltrace' = [ltrace EXCEPT ![t] = <<>>]
    /\ UNCHANGED <<cacheVars, clock, cap, model, work, ignored,
                   cached_models, target, host_models, k0, histVars,
                   pipeVars>>

\* A call with loras=[] and scheduler=None.
Call(t) == \E k \in Keys : CallWith(t, k, NoName, 0)

\* A call with a named sampler override and no overlay.
CallSampler(t) ==
    \E k \in Keys, name \in SchedulerInputs \ {NoName} :
        CallWith(t, k, name, 0)

\* A call with any overlays and any sampler override.
CallCustom(t) ==
    \E k \in Keys, name \in SchedulerInputs, n \in 0..MaxLoras :
        CallWith(t, k, name, n)

\* get_model: `if model_key not in self.models`
GetModelCheck(t) ==
    /\ pc[t] = "get_model"
    /\ UNCHANGED dlVars
    /\ pc' = [pc EXCEPT ![t] =
                IF KeyAbsent(key[t]) THEN "load" ELSE "get_return"]
    /\ UNCHANGED <<cacheVars, clock, cap, budget, key, model, loaded,
                   runVars, histVars, scopeVars>>

\* get_model: the loader (from_pretrained / from_single_file) and
\* self.models[model_key] = Model(pipe)
GetModelLoad(t) ==
    /\ pc[t] = "load"
    /\ UNCHANGED dlVars
    /\ LET o == FreshObj
           mp == [models EXCEPT ![key[t]] = o]
           dv == Collect([device EXCEPT ![o] = "cpu"], mp, model)
       IN  /\ models' = mp
           /\ device' = dv
           /\ last_cache_hit' = [last_cache_hit EXCEPT ![o] = 0]
           /\ scheduler' = Forget([scheduler EXCEPT ![o] = OwnScheduler],
                                  dv, OwnScheduler)
           /\ adapters' = Forget([adapters EXCEPT ![o] = 0], dv, 0)
           /\ fused' = Forget([fused EXCEPT ![o] = FALSE], dv, FALSE)
    /\ order' = IF key[t] \in Range(order) THEN order
                ELSE Append(order, key[t])
    /\ loads' = [loads EXCEPT ![key[t]] = @ + 1]
    /\ loaded' = [loaded EXCEPT ![t] = TRUE]
    /\ pc' = [pc EXCEPT ![t] = "get_return"]
    /\ UNCHANGED <<clock, cap, budget, key, model, runVars, accessed,
                   demoted, evicted, ramWasFull, inferOom, callVars>>

\* get_model: `return self.models[model_key]`
GetModelReturn(t) ==
    /\ pc[t] = "get_return"
    /\ UNCHANGED dlVars
    /\ IF models[key[t]] = None
       THEN /\ runResult' = [runResult EXCEPT ![t] = KeyError]
            /\ outcome' = [outcome EXCEPT ![t] = KeyError]
            /\ pc' = [pc EXCEPT ![t] = "exit"]
            /\ UNCHANGED model
       ELSE /\ model' = [model EXCEPT ![t] = models[key[t]]]
            /\ pc' = [pc EXCEPT ![t] = "as_base"]
            /\ UNCHANGED <<runResult, outcome>>
    /\ UNCHANGED <<cacheVars, clock, cap, budget, key, loaded, work,
                   ignored, cached_models, target, host_models, trace, k0,
                   histVars, pipeVars, scheduler_name, n_loras,
                   original_scheduler, li, bodyRes, tdFailed, preSched,
                   ltrace>>

\* Model.as_base, then load_model passes partial(pipe.to, "cuda") to
\* execute_on_cuda without ignored_models.
AsBase(t) ==
    /\ pc[t] = "as_base"
    /\ UNCHANGED dlVars
    /\ last_cache_hit' = [last_cache_hit EXCEPT ![model[t]] = clock]
    /\ clock' = clock + 1
    /\ accessed' = Append(accessed, key[t])
    /\ demoted' = [demoted EXCEPT ![key[t]] = 0]
    /\ work' = [work EXCEPT ![t] = "to"]
    /\ ignored' = [ignored EXCEPT ![t] = {}]
    /\ pc' = [pc EXCEPT ![t] = "cuda_list"]
    /\ UNCHANGED <<models, order, device, cap, budget, key, model, loaded,
                   cached_models, target, host_models, runResult, trace, k0,
                   loads, evicted, ramWasFull, inferOom, scopeVars>>

\* execute_on_cuda: cached_models = get_loaded_models_by_device("cuda", ...)
CudaList(t) ==
    /\ pc[t] = "cuda_list"
    /\ UNCHANGED dlVars
    /\ LET l == get_loaded_models_by_device("cuda", ignored[t])
       IN  /\ cached_models' = [cached_models EXCEPT ![t] = l]
           /\ k0' = [k0 EXCEPT ![t] = Len(l)]
    /\ trace' = [trace EXCEPT ![t] = <<>>]
    /\ runResult' = [runResult EXCEPT ![t] = NoResult]
    /\ pc' = [pc EXCEPT ![t] = "try"]
    /\ UNCHANGED <<cacheVars, clock, cap, budget, key, model, loaded, work,
                   ignored, target, host_models, histVars, scopeVars>>

\* What function() does: pipe.to("cuda") succeeds when the pipeline is
\* already there or the accelerator has room, and raises CUDA OOM otherwise;
\* the inference engine returns or raises whatever it raises.
Outcomes(t) ==
    IF work[t] = "to"
    THEN IF device[model[t]] = "cuda" \/ CudaCount < cap
         THEN {Ok} ELSE {CudaOomError}
    ELSE {Ok} \cup InferenceErrors

\* execute_on_cuda: `return function()` and the except clause up to `raise`
Try(t) ==
    /\ pc[t] = "try"
    /\ UNCHANGED dlVars
    /\ \E out \in Outcomes(t) :
        /\ trace' = [trace EXCEPT ![t] = Append(@, Event("work", out, NoKey))]
        /\ inferOom' = (inferOom \/ (work[t] = "infer" /\ out.type # "ok"
                                      /\ out \in {CudaOomError, AssertOomError}))
        /\ IF out = Ok
           THEN /\ device' = IF work[t] = "to"
                             THEN [device EXCEPT ![model[t]] = "cuda"]
                             ELSE device
                /\ runResult' = [runResult EXCEPT ![t] = Ok]
                /\ pc' = [pc EXCEPT ![t] = "run_done"]
           ELSE IF ~IsCudaOom(out) \/ cached_models[t] = <<>>
           THEN /\ runResult' = [runResult EXCEPT ![t] = out]
                /\ pc' = [pc EXCEPT ![t] = "run_done"]
                /\ UNCHANGED device
           ELSE /\ pc' = [pc EXCEPT ![t] = "pop"]
                /\ UNCHANGED <<device, runResult>>
    /\ UNCHANGED <<models, order, last_cache_hit, clock, cap, budget, key,
                   model, loaded, work, ignored, cached_models, target,
                   host_models, k0, loads, accessed, demoted, evicted,
                   ramWasFull, scopeVars>>

\* execute_on_cuda: target_model_id = cached_models.pop(); the call of
\* offload_model_to_cpu up to models = get_loaded_models_by_device("cpu", [])
Pop(t) ==
    /\ pc[t] = "pop"
    /\ UNCHANGED dlVars
    /\ LET i == PopIndex(cached_models[t])
           victim == cached_models[t][i]
       IN  /\ target' = [target EXCEPT ![t] = victim]
           /\ cached_models' = [cached_models EXCEPT ![t] =
                  SubSeq(@, 1, i - 1) \o SubSeq(@, i + 1, Len(@))]
           /\ trace' = [trace EXCEPT ![t] =
                  Append(@, Event("demote", NoResult, victim))]
    /\ host_models' = [host_models EXCEPT ![t] =
           get_loaded_models_by_device("cpu", {})]
    /\ pc' = [pc EXCEPT ![t] = "offload"]
    /\ UNCHANGED <<cacheVars, clock, cap, budget, key, model, loaded, work,
                   ignored, runResult, k0, histVars, scopeVars>>

\* del self.models[k]; gc.collect()
Delete(t, k, nextpc) ==
    IF models[k] = None
    THEN /\ runResult' = [runResult EXCEPT ![t] = KeyError]
         /\ pc' = [pc EXCEPT ![t] = "run_done"]
         /\ UNCHANGED <<models, order, device, evicted, demoted, pipeVars>>
    ELSE LET mp == [models EXCEPT ![k] = None]
             dv == Collect(device, mp, model)
         IN  /\ models' = mp
             /\ order' = Without(order, k)
             /\ device' = dv
             /\ scheduler' = Forget(scheduler, dv, OwnScheduler)
             /\ adapters' = Forget(adapters, dv, 0)
             /\ fused' = Forget(fused, dv, FALSE)
             /\ evicted' = evicted \cup {k}
             /\ demoted' = [demoted EXCEPT ![k] =
                               IF k = target[t] THEN -1 ELSE 0]
             /\ pc' = [pc EXCEPT ![t] = nextpc]
             /\ UNCHANGED runResult

\* offload_model_to_cpu: one evaluation of `while is_ram_buffer_full()` and
\* the loop body, or the statements after the loop.
Offload(t) ==
    /\ pc[t] = "offload"
    /\ UNCHANGED dlVars
    /\ \E full \in BOOLEAN :
        /\ ramWasFull' = (ramWasFull \/ full)
        /\ IF full
           THEN IF host_models[t] = <<>>
                THEN /\ Delete(t, target[t], "empty_cache")
                     /\ UNCHANGED host_models
                ELSE LET i == PopIndex(host_models[t])
                     IN  /\ Delete(t, host_models[t][i], "offload")
                         /\ host_models' = [host_models EXCEPT ![t] =
                                SubSeq(@, 1, i - 1) \o SubSeq(@, i + 1, Len(@))]
           ELSE IF models[target[t]] = None
                THEN /\ runResult' = [runResult EXCEPT ![t] = KeyError]
                     /\ pc' = [pc EXCEPT ![t] = "run_done"]
                     /\ UNCHANGED <<models, order, device, evicted, demoted,
                                    host_models, pipeVars>>
                ELSE /\ device' = [device EXCEPT ![models[target[t]]] = "cpu"]
                     /\ demoted' = [demoted EXCEPT ![target[t]] =
                                       models[target[t]]]
                     /\ pc' = [pc EXCEPT ![t] = "empty_cache"]
                     /\ UNCHANGED <<models, order, evicted, runResult,
                                    host_models, pipeVars>>
    /\ UNCHANGED <<last_cache_hit, clock, cap, budget, key, model, loaded,
                   work, ignored, cached_models, target, trace, k0, loads,
                   accessed, inferOom, callVars>>

\* execute_on_cuda: self.empty_cache() inside the loop, then the loop test
\* `while first_try or cached_models` (first_try is False by now)
EmptyCache(t) ==
    /\ pc[t] = "empty_cache"
    /\ UNCHANGED dlVars
    /\ trace' = [trace EXCEPT ![t] = Append(@, Event("reclaim", NoResult, NoKey))]
    /\ pc' = [pc EXCEPT ![t] =
                IF LoopContinues(FALSE, cached_models[t])
                THEN "try" ELSE "give_up"]
    /\ UNCHANGED <<cacheVars, clock, cap, budget, key, model, loaded, work,
                   ignored, cached_models, target, host_models, runResult,
                   k0, histVars, scopeVars>>

\* execute_on_cuda: self.empty_cache();
\* raise RuntimeError("Not enough CUDA memory to complete the operation.")
GiveUp(t) ==
    /\ pc[t] = "give_up"
    /\ UNCHANGED dlVars
    /\ trace' = [trace EXCEPT ![t] = Append(@, Event("reclaim", NoResult, NoKey))]
    /\ runResult' = [runResult EXCEPT ![t] = NotEnoughCudaMemory]
    /\ pc' = [pc EXCEPT ![t] = "run_done"]
    /\ UNCHANGED <<cacheVars, clock, cap, budget, key, model, loaded, work,
                   ignored, cached_models, target, host_models, k0,
                   histVars, scopeVars>>

\* Where the call goes when the scoped body or the overlay teardown is
\* over: the finally clause of load_model, then that of change_scheduler.
AfterTeardown(t) == IF scheduler_name[t] = NoName THEN "exit" ELSE "restore"
AfterBody(t) == IF n_loras[t] > 0 THEN "unfuse" ELSE AfterTeardown(t)
\* `if loras:` before the yield
AfterScheduler(t) == IF n_loras[t] > 0 THEN "resolve" ELSE "body"

\* execute_on_cuda has returned or raised: load_model's residency step is
\* over ("acquired"), or generate_image's inference is over and the with
\* statement unwinds.
RunDone(t) ==
    /\ pc[t] = "run_done"
    /\ UNCHANGED dlVars
    /\ IF work[t] = "to"
       THEN /\ pc' = [pc EXCEPT ![t] = "acquired"]
            /\ UNCHANGED <<outcome, bodyRes>>
       ELSE /\ pc' = [pc EXCEPT ![t] = AfterBody(t)]
            /\ outcome' = [outcome EXCEPT ![t] = runResult[t]]
            /\ bodyRes' = [bodyRes EXCEPT ![t] = runResult[t]]
    /\ UNCHANGED <<cacheVars, clock, cap, budget, key, model, loaded,
                   runVars, histVars, pipeVars, scheduler_name, n_loras,
                   original_scheduler, li, tdFailed, preSched, ltrace>>

\* load_model after execute_on_cuda, and change_scheduler up to
\* `original_scheduler = pipe.scheduler`: the residency step raised and the
\* call unwinds; or no override is requested; or the override is rejected
\* with ValueError; or it is accepted.
Acquired(t) ==
    /\ pc[t] = "acquired"
    /\ UNCHANGED dlVars
    /\ IF runResult[t] # Ok
       THEN /\ outcome' = [outcome EXCEPT ![t] = runResult[t]]
            /\ pc' = [pc EXCEPT ![t] = "exit"]
            /\ UNCHANGED <<original_scheduler, preSched>>
       ELSE /\ preSched' = [preSched EXCEPT ![t] = scheduler[model[t]]]
            /\ IF scheduler_name[t] = NoName
               THEN /\ pc' = [pc EXCEPT ![t] = AfterScheduler(t)]
                    /\ UNCHANGED <<outcome, original_scheduler>>
               ELSE IF ~SchedulerAccepted(SUPPORTED_SCHEDULERS[scheduler_name[t]],
                                          Compatibles(key[t]))
               THEN /\ outcome' = [outcome EXCEPT ![t] = CompatibilityError]
                    /\ pc' = [pc EXCEPT ![t] = "exit"]
                    /\ UNCHANGED original_scheduler
               ELSE /\ original_scheduler' =
                          [original_scheduler EXCEPT ![t] = scheduler[model[t]]]
                    /\ pc' = [pc EXCEPT ![t] = "construct"]
                    /\ UNCHANGED outcome
    /\ UNCHANGED <<cacheVars, clock, cap, budget, key, model, loaded,
                   runVars, histVars, pipeVars, scheduler_name, n_loras, li,
                   bodyRes, tdFailed, ltrace>>

\* change_scheduler: pipe.scheduler = scheduler_cls.from_config(...), which
\* may raise.
Construct(t) ==
    /\ pc[t] = "construct"
    /\ UNCHANGED dlVars
    /\ \E ok \in BOOLEAN :
        IF ok
        THEN /\ scheduler' = [scheduler EXCEPT ![model[t]] = NewScheduler(t)]
             /\ pc' = [pc EXCEPT ![t] = AfterScheduler(t)]
             /\ UNCHANGED <<outcome, bodyRes>>
        ELSE /\ outcome' = [outcome EXCEPT ![t] = FromConfigError]
             /\ bodyRes' = [bodyRes EXCEPT ![t] = FromConfigError]
             /\ pc' = [pc EXCEPT ![t] = "restore"]
             /\ UNCHANGED scheduler
    /\ UNCHANGED <<cacheVars, clock, cap, budget, key, model, loaded,
                   runVars, histVars, adapters, fused, scheduler_name,
                   n_loras, original_scheduler, li, tdFailed, preSched,
                   ltrace>>

\* An exception inside merge_and_apply_loras: load_model's finally runs.
ApplyFails(t) ==
    /\ outcome' = [outcome EXCEPT ![t] = LoraError]
    /\ bodyRes' = [bodyRes EXCEPT ![t] = LoraError]
    /\ pc' = [pc EXCEPT ![t] = "unfuse"]
    /\ UNCHANGED <<li, ltrace, pipeVars>>

\* A loop over the overlays that stops after its first item.
LastItemFirst(i, n) == TRUE

\* The list comprehension and the for loop of merge_and_apply_loras visit
\* every overlay: item i of n is the last one when i = n.
LastItem(i, n) == i = n

\* merge_and_apply_loras: download_lora_weight_if_needed for one overlay
\* (the list comprehension resolves all of them before any is loaded).
Resolve(t) ==
    /\ pc[t] = "resolve"
    /\ UNCHANGED dlVars
    /\ \E ok \in BOOLEAN :
        IF ok
        THEN /\ ltrace' = [ltrace EXCEPT ![t] = Append(@, "resolve")]
             /\ IF LastItem(li[t], n_loras[t])
                THEN /\ li' = [li EXCEPT ![t] = 1]
                     /\ pc' = [pc EXCEPT ![t] = "load_lora"]
                ELSE /\ li' = [li EXCEPT ![t] = @ + 1]
                     /\ UNCHANGED pc
             /\ UNCHANGED <<outcome, bodyRes, pipeVars>>
        ELSE ApplyFails(t)
    /\ UNCHANGED <<cacheVars, clock, cap, budget, key, model, loaded,
                   runVars, histVars, scheduler_name, n_loras,
                   original_scheduler, tdFailed, preSched>>

\* merge_and_apply_loras: pipe.load_lora_weights for one overlay
LoadLora(t) ==
    /\ pc[t] = "load_lora"
    /\ UNCHANGED dlVars
    /\ \E ok \in BOOLEAN :
        IF ok
        THEN /\ adapters' = [adapters EXCEPT ![model[t]] = @ + 1]
             /\ ltrace' = [ltrace EXCEPT ![t] = Append(@, "load")]
             /\ IF LastItem(li[t], n_loras[t])
                THEN /\ li' = [li EXCEPT ![t] = 1]
                     /\ pc' = [pc EXCEPT ![t] = "set_adapters"]
                ELSE /\ li' = [li EXCEPT ![t] = @ + 1]
                     /\ UNCHANGED pc
             /\ UNCHANGED <<outcome, bodyRes, scheduler, fused>>
        ELSE ApplyFails(t)
    /\ UNCHANGED <<cacheVars, clock, cap, budget, key, model, loaded,
                   runVars, histVars, scheduler_name, n_loras,
                   original_scheduler, tdFailed, preSched>>

\* merge_and_apply_loras: pipe.set_adapters(adapter_names, adapter_weights)
SetAdapters(t) ==
    /\ pc[t] = "set_adapters"
    /\ UNCHANGED dlVars
    /\ \E ok \in BOOLEAN :
        IF ok
        THEN /\ ltrace' = [ltrace EXCEPT ![t] = Append(@, "set")]
             /\ pc' = [pc EXCEPT ![t] = "fuse"]
             /\ UNCHANGED <<outcome, bodyRes, li, pipeVars>>
        ELSE ApplyFails(t)
    /\ UNCHANGED <<cacheVars, clock, cap, budget, key, model, loaded,
                   runVars, histVars, scheduler_name, n_loras,
                   original_scheduler, tdFailed, preSched>>

\* merge_and_apply_loras: pipe.fuse_lora()
Fuse(t) ==
    /\ pc[t] = "fuse"
    /\ UNCHANGED dlVars
    /\ \E ok \in BOOLEAN :
        IF ok
        THEN /\ fused' = [fused EXCEPT ![model[t]] = TRUE]
             /\ ltrace' = [ltrace EXCEPT ![t] = Append(@, "fuse")]
             /\ pc' = [pc EXCEPT ![t] = "body"]
             /\ UNCHANGED <<outcome, bodyRes, li, scheduler, adapters>>
        ELSE ApplyFails(t)
    /\ UNCHANGED <<cacheVars, clock, cap, budget, key, model, loaded,
                   runVars, histVars, scheduler_name, n_loras,
                   original_scheduler, tdFailed, preSched>>

\* load_model yields the pipe and generate_image runs
\* session.execute_on_cuda(make_inference, ignored_models=[pipe]).
Body(t) ==
    /\ pc[t] = "body"
    /\ UNCHANGED dlVars
    /\ work' = [work EXCEPT ![t] = "infer"]
    /\ ignored' = [ignored EXCEPT ![t] = {model[t]}]
    /\ pc' = [pc EXCEPT ![t] = "cuda_list"]
    /\ UNCHANGED <<cacheVars, clock, cap, budget, key, model, loaded,
                   cached_models, target, host_models, runResult, trace, k0,
                   histVars, scopeVars>>

\* load_model's except clause: self.models.pop((model_name, arch), None)
PopEntry(t) ==
    LET mp == [models EXCEPT ![key[t]] = None]
    IN  /\ models' = mp
        /\ order' = Without(order, key[t])
        /\ evicted' = IF models[key[t]] # None
                      THEN evicted \cup {key[t]} ELSE evicted
        /\ demoted' = [demoted EXCEPT ![key[t]] = 0]
        /\ tdFailed' = [tdFailed EXCEPT ![t] = TRUE]
        /\ pc' = [pc EXCEPT ![t] = AfterTeardown(t)]

\* load_model's finally: pipe.unfuse_lora()
Unfuse(t) ==
    /\ pc[t] = "unfuse"
    /\ UNCHANGED dlVars
    /\ \E ok \in BOOLEAN :
        IF ok
        THEN /\ fused' = [fused EXCEPT ![model[t]] = FALSE]
             /\ ltrace' = [ltrace EXCEPT ![t] = Append(@, "unfuse")]
             /\ pc' = [pc EXCEPT ![t] = "deactivate"]
             /\ UNCHANGED <<models, order, evicted, demoted, tdFailed>>
        ELSE /\ PopEntry(t)
             /\ UNCHANGED <<fused, ltrace>>
    /\ UNCHANGED <<device, last_cache_hit, clock, cap, budget, key, model,
                   loaded, runVars, loads, accessed, ramWasFull, inferOom,
                   scheduler, adapters, scheduler_name, n_loras,
                   original_scheduler, li, outcome, bodyRes, preSched>>

\* load_model's finally: pipe.set_adapters(adapter_names=[])
Deactivate(t) ==
    /\ pc[t] = "deactivate"
    /\ UNCHANGED dlVars
    /\ \E ok \in BOOLEAN :
        IF ok
        THEN /\ ltrace' = [ltrace EXCEPT ![t] = Append(@, "deactivate")]
             /\ pc' = [pc EXCEPT ![t] = "unload"]
             /\ UNCHANGED <<models, order, evicted, demoted, tdFailed>>
        ELSE /\ PopEntry(t)
             /\ UNCHANGED ltrace
    /\ UNCHANGED <<device, last_cache_hit, clock, cap, budget, key, model,
                   loaded, runVars, loads, accessed, ramWasFull, inferOom,
                   pipeVars, scheduler_name, n_loras, original_scheduler, li,
                   outcome, bodyRes, preSched>>

\* load_model's else clause: pipe.unload_lora_weights(), outside the try;
\* when it raises, the error leaves the finally clause in place of whatever
\* the body returned or raised, and the adapters stay loaded.
Unload(t) ==
    /\ pc[t] = "unload"
    /\ UNCHANGED dlVars
    /\ \E ok \in BOOLEAN :
        IF ok
        THEN /\ adapters' = [adapters EXCEPT ![model[t]] = 0]
             /\ ltrace' = [ltrace EXCEPT ![t] = Append(@, "unload")]
             /\ UNCHANGED <<outcome, tdFailed>>
        ELSE /\ outcome' = [outcome EXCEPT ![t] = UnloadError]
             /\ tdFailed' = [tdFailed EXCEPT ![t] = TRUE]
             /\ UNCHANGED <<adapters, ltrace>>
    /\ pc' = [pc EXCEPT ![t] = AfterTeardown(t)]
    /\ UNCHANGED <<cacheVars, clock, cap, budget, key, model, loaded,
                   runVars, histVars, scheduler, fused, scheduler_name,
                   n_loras, original_scheduler, li, bodyRes, preSched>>

\* What change_scheduler's finally assigns without having saved the original.
RestoredSchedulerCurrent(t) == scheduler[model[t]]

\* change_scheduler's finally: the value assigned to pipe.scheduler
RestoredScheduler(t) == original_scheduler[t]

\* change_scheduler's finally: pipe.scheduler = original_scheduler
Restore(t) ==
    /\ pc[t] = "restore"
    /\ UNCHANGED dlVars
    /\ scheduler' = [scheduler EXCEPT ![model[t]] = RestoredScheduler(t)]
    /\ pc' = [pc EXCEPT ![t] = "exit"]
    /\ UNCHANGED <<cacheVars, clock, cap, budget, key, model, loaded,
                   runVars, histVars, adapters, fused, callVars>>

\* The call ends: its references to the Model and the pipe are dropped.
Exit(t) ==
    /\ pc[t] = "exit"
    /\ UNCHANGED dlVars
    /\ LET md == [model EXCEPT ![t] = None]
           dv == Collect(device, models, md)
       IN  /\ model' = md
           /\ device' = dv
           /\ scheduler' = Forget(scheduler, dv, OwnScheduler)
           /\ adapters' = Forget(adapters, dv, 0)
           /\ fused' = Forget(fused, dv, FALSE)
    /\ pc' = [pc EXCEPT ![t] = "idle"]
    \* the locals of the call go out of scope
    /\ key' = [key EXCEPT ![t] = NoKey]
    /\ loaded' = [loaded EXCEPT ![t] = FALSE]
    /\ work' = [work EXCEPT ![t] = "to"]
    /\ ignored' = [ignored EXCEPT ![t] = {}]
    /\ cached_models' = [cached_models EXCEPT ![t] = <<>>]
    /\ target' = [target EXCEPT ![t] = NoKey]
    /\ host_models' = [host_models EXCEPT ![t] = <<>>]
    /\ runResult' = [runResult EXCEPT ![t] = NoResult]
    /\ trace' = [trace EXCEPT ![t] = <<>>]
    /\ k0' = [k0 EXCEPT ![t] = 0]
    /\ scheduler_name' = [scheduler_name EXCEPT ![t] = NoName]
    /\ n_loras' = [n_loras EXCEPT ![t] = 0]
    /\ original_scheduler' = [original_scheduler EXCEPT ![t] = OwnScheduler]
    /\ li' = [li EXCEPT ![t] = 1]
    /\ outcome' = [outcome EXCEPT ![t] = NoResult]
    /\ bodyRes' = [bodyRes EXCEPT ![t] = NoResult]
    /\ tdFailed' = [tdFailed EXCEPT ![t] = FALSE]
    /\ preSched' = [preSched EXCEPT ![t] = NoScheduler]
    /\ ltrace' = [ltrace EXCEPT ![t] = <<>>]
    /\ UNCHANGED <<models, order, last_cache_hit, clock, cap, budget,
                   histVars>>

\* ------------------------------------------------ download_to actions
\* download_to raises: the temporary file, if any, has been removed.
DlRaise(t, err) ==
    /\ dres' = [dres EXCEPT ![t] = err]
    /\ tmp_file' = [tmp_file EXCEPT ![t] = Missing]
    /\ dpc' = [dpc EXCEPT ![t] = "d_done"]

\* download_model_if_needed / download_lora_weight_if_needed call
\* download_to(url, directory, extension="safetensors"); .ckpt is refused.
DlCall(t) ==
    /\ dpc[t] = "idle"
    /\ dbudget > 0
    /\ dbudget' = dbudget - 1
    /\ \E u \in Urls :
        /\ url' = [url EXCEPT ![t] = u]
        /\ IF EndsWithCkpt(u)
           THEN DlRaise(t, FormatError)
           ELSE /\ dpc' = [dpc EXCEPT ![t] = "d_check"]
                /\ UNCHANGED <<dres, tmp_file>>
    /\ UNCHANGED <<runtimeVars, files, moved, total_size, stream>>

\* `if not download_path.exists():`
DlCheck(t) ==
    /\ dpc[t] = "d_check"
    /\ IF files[download_path(url[t])] # Missing
       THEN /\ dres' = [dres EXCEPT ![t] = PathResult]
            /\ dpc' = [dpc EXCEPT ![t] = "d_done"]
       ELSE /\ dpc' = [dpc EXCEPT ![t] = "d_open"]
            /\ UNCHANGED dres
    /\ UNCHANGED <<runtimeVars, files, moved, dbudget, url, tmp_file,
                   total_size, stream>>

\* tempfile.mkstemp(), urlopen(request) and the content-length header.
\* urlopen raises HTTPError (turned into ValueError) or another error
\* (re-raised as it is); otherwise the response declares its length or
\* not, and delivers all of the file or ends early.
DlOpen(t) ==
    /\ dpc[t] = "d_open"
    /\ \/ DlRaise(t, DownloadError) /\ UNCHANGED <<total_size, stream>>
       \/ DlRaise(t, TransportError) /\ UNCHANGED <<total_size, stream>>
       \/ \E declared \in {0, RemoteSize}, delivered \in 0..RemoteSize :
            /\ tmp_file' = [tmp_file EXCEPT ![t] = 0]
            /\ total_size' = [total_size EXCEPT ![t] = declared]
            /\ stream' = [stream EXCEPT ![t] = delivered]
            /\ dpc' = [dpc EXCEPT ![t] = "d_read"]
            /\ UNCHANGED dres
    /\ UNCHANGED <<runtimeVars, files, moved, dbudget, url>>

\* `while data := response.read(CHUNK_SIZE): f_stream.write(data)`: one
\* chunk is written, the read raises, or the response has ended.
DlRead(t) ==
    /\ dpc[t] = "d_read"
    /\ IF tmp_file[t] < stream[t]
       THEN \/ /\ tmp_file' = [tmp_file EXCEPT ![t] = @ + 1]
               /\ UNCHANGED <<dpc, dres>>
            \/ DlRaise(t, TransportError)
       ELSE /\ dpc' = [dpc EXCEPT ![t] = "d_verify"]
            /\ UNCHANGED <<tmp_file, dres>>
    /\ UNCHANGED <<runtimeVars, files, moved, dbudget, url, total_size,
                   stream>>

\* `total_size > 0 and total_size != os.path.getsize(tmp_file)`
SizeMismatch(declared, size) == declared > 0 /\ declared # size

\* The size test after the transfer: ValueError and the temporary file is
\* removed, or the file goes on to be moved.
DlVerify(t) ==
    /\ dpc[t] = "d_verify"
    /\ IF SizeMismatch(total_size[t], tmp_file[t])
       THEN DlRaise(t, SizeError)
       ELSE /\ dpc' = [dpc EXCEPT ![t] = "d_move"]
            /\ UNCHANGED <<tmp_file, dres>>
    /\ UNCHANGED <<runtimeVars, files, moved, dbudget, url, total_size,
                   stream>>

\* shutil.move has put the temporary file's content at download_path.
Published(t) ==
    LET p == download_path(url[t])
    IN  /\ files' = [files EXCEPT ![p] = tmp_file[t]]
        /\ moved' = [moved EXCEPT ![p] = @ + 1]
        /\ tmp_file' = [tmp_file EXCEPT ![t] = Missing]
        /\ dres' = [dres EXCEPT ![t] = PathResult]
        /\ dpc' = [dpc EXCEPT ![t] = "d_done"]

\* shutil.move(tmp_file, download_path): os.rename when both are on one
\* filesystem; otherwise the destination is opened for writing and the
\* content is copied into it before the source is removed.
DlMove(t) ==
    /\ dpc[t] = "d_move"
    /\ \/ Published(t)
       \/ /\ files' = [files EXCEPT ![download_path(url[t])] = 0]
          /\ dpc' = [dpc EXCEPT ![t] = "d_copy"]
          /\ UNCHANGED <<moved, tmp_file, dres>>
    /\ UNCHANGED <<runtimeVars, dbudget, url, total_size, stream>>

\* shutil.move across filesystems: the copy ends, the source is removed.
DlCopy(t) ==
    /\ dpc[t] = "d_copy"
    /\ Published(t)
    /\ UNCHANGED <<runtimeVars, dbudget, url, total_size, stream>>

\* download_to returns download_path or the error leaves it.
DlReturn(t) ==
    /\ dpc[t] = "d_done"
    /\ dpc' = [dpc EXCEPT ![t] = "idle"]
    /\ url' = [url EXCEPT ![t] = NoUrl]
    /\ total_size' = [total_size EXCEPT ![t] = 0]
    /\ stream' = [stream EXCEPT ![t] = 0]
    /\ dres' = [dres EXCEPT ![t] = NoResult]
    /\ UNCHANGED <<runtimeVars, files, moved, dbudget, tmp_file>>

NextDl ==
    \E t \in Threads :
        \/ DlCall(t)
        \/ DlCheck(t)
        \/ DlOpen(t)
        \/ DlRead(t)
        \/ DlVerify(t)
        \/ DlMove(t)
        \/ DlCopy(t)
        \/ DlReturn(t)

Next ==
    \E t \in SeqThreads :
        \/ Call(t)
        \/ GetModelCheck(t)
        \/ GetModelLoad(t)
        \/ GetModelReturn(t)
        \/ AsBase(t)
        \/ CudaList(t)
        \/ Try(t)
        \/ Pop(t)
        \/ Offload(t)
        \/ EmptyCache(t)
        \/ GiveUp(t)
        \/ RunDone(t)
        \/ Acquired(t)
        \/ Body(t)
        \/ Exit(t)

NextConc ==
    \E t \in Threads :
        \/ Call(t)
        \/ GetModelCheck(t)
        \/ GetModelLoad(t)
        \/ GetModelReturn(t)
        \/ AsBase(t)
        \/ CudaList(t)
        \/ Try(t)
        \/ Pop(t)
        \/ Offload(t)
        \/ EmptyCache(t)
        \/ GiveUp(t)
        \/ RunDone(t)
        \/ Acquired(t)
        \/ Body(t)
        \/ Exit(t)

NextScope ==
    \E t \in SeqThreads :
        \/ CallCustom(t)
        \/ GetModelCheck(t)
        \/ GetModelLoad(t)
        \/ GetModelReturn(t)
        \/ AsBase(t)
        \/ CudaList(t)
        \/ Try(t)
        \/ Pop(t)
        \/ Offload(t)
        \/ EmptyCache(t)
        \/ GiveUp(t)
        \/ RunDone(t)
        \/ Acquired(t)
        \/ Construct(t)
        \/ Resolve(t)
        \/ LoadLora(t)
        \/ SetAdapters(t)
        \/ Fuse(t)
        \/ Body(t)
        \/ Unfuse(t)
        \/ Deactivate(t)
        \/ Unload(t)
        \/ Restore(t)
        \/ Exit(t)

\* Concurrent requests that override the sampler.
NextSampler ==
    \E t \in Threads :
        \/ CallSampler(t)
        \/ GetModelCheck(t)
        \/ GetModelLoad(t)
        \/ GetModelReturn(t)
        \/ AsBase(t)
        \/ CudaList(t)
        \/ Try(t)
        \/ Pop(t)
        \/ Offload(t)
        \/ EmptyCache(t)
        \/ GiveUp(t)
        \/ RunDone(t)
        \/ Acquired(t)
        \/ Construct(t)
        \/ Body(t)
        \/ Restore(t)
        \/ Exit(t)

Spec == Init /\ [][Next]_vars
SpecConc == InitConc /\ [][NextConc]_vars
SpecScope == InitScope /\ [][NextScope]_vars
SpecDl == InitDl /\ [][NextDl]_vars
SpecWarm == InitWarm /\ [][NextConc]_vars
SpecSampler == InitSampler /\ [][NextSampler]_vars

\* ------------------------------------------------------- type invariant
TypeOK ==
    /\ \A k \in Keys : models[k] \in ObjIds \cup {None}
    /\ Range(order) = {k \in Keys : models[k] # None}
    /\ \A o \in ObjIds : device[o] \in {"none", "cpu", "cuda"}
    /\ \A k \in Keys : models[k] # None => device[models[k]] # "none"

\* ------------------------------------------------- observation helpers
AccelKeys == {k \in Keys : models[k] # None /\ device[models[k]] = "cuda"}
HostKeys == {k \in Keys : models[k] # None /\ device[models[k]] = "cpu"}

OomErrors == {CudaOomError, AssertOomError}
NonOomErrors == {OtherRuntimeError, OomTextValueError, PlainValueError}

WorkEvents(tr) == SelectSeq(tr, LAMBDA e : e.ev = "work")
DemoteEvents(tr) == SelectSeq(tr, LAMBDA e : e.ev = "demote")

\* Entries the running execute_on_cuda of t may demote right now.
Eligible(t) ==
    {k \in Keys : /\ models[k] # None
                  /\ device[models[k]] = "cuda"
                  /\ models[k] \notin ignored[t]}

\* The c most recently accessed keys (all of them while fewer than c).
LastAccess(k) ==
    CHOOSE i \in 1..Len(accessed) :
        /\ accessed[i] = k
        /\ \A j \in (i + 1)..Len(accessed) : accessed[j] # k
MostRecent(c) ==
    {k \in Range(accessed) :
        Cardinality({j \in Range(accessed) : LastAccess(j) > LastAccess(k)}) < c}

\* A call holds the entry (from get_model until its scope exits).
Leased(o) == \E t \in Threads : model[t] = o

\* ---------------------------------------------------------------- C1
\* C1: with capacity 1, acquire(A), acquire(B), acquire(A) succeeds at every
\* step and leaves, in turn, A on the accelerator; B on the accelerator and
\* A on the host; A on the accelerator and B on the host.
C1_CapacityOneTrace ==
    \A t \in SeqThreads :
        (cap = 1 /\ ~ramWasFull /\ pc[t] = "acquired") =>
            /\ accessed = <<"A">> =>
                 /\ runResult[t] = Ok
                 /\ AccelKeys = {"A"}
            /\ accessed = <<"A", "B">> =>
                 /\ runResult[t] = Ok
                 /\ AccelKeys = {"B"}
                 /\ HostKeys = {"A"}
            /\ accessed = <<"A", "B", "A">> =>
                 /\ runResult[t] = Ok
                 /\ AccelKeys = {"A"}
                 /\ HostKeys = {"B"}

\* ---------------------------------------------------------------- C2
\* C2: when work raises OOM on every invocation and k entries were evictable
\* at the start, execute_on_cuda fails with the "Not enough CUDA memory"
\* error after exactly k retries (k + 1 invocations) and never invokes work
\* more than k + 1 times.
C2_ExactlyKRetries ==
    \A t \in SeqThreads :
        /\ Len(WorkEvents(trace[t])) <= k0[t] + 1
        /\ ( /\ pc[t] = "run_done"
             /\ \A i \in 1..Len(trace[t]) :
                   trace[t][i].ev = "work" => trace[t][i].res \in OomErrors )
           => /\ runResult[t] = NotEnoughCudaMemory
              /\ Len(WorkEvents(trace[t])) = k0[t] + 1

\* ---------------------------------------------------------------- C3
\* C3: every demotion made by execute_on_cuda is followed by a reclamation
\* pass and then by another invocation of work before the run ends.
C3_DemoteReclaimRetry ==
    \A t \in SeqThreads :
        pc[t] = "run_done" =>
            \A i \in 1..Len(trace[t]) :
                trace[t][i].ev = "demote" =>
                    /\ i + 2 <= Len(trace[t])
                    /\ trace[t][i + 1].ev = "reclaim"
                    /\ trace[t][i + 2].ev = "work"

\* ---------------------------------------------------------------- C4
\* C4: the entry execute_on_cuda demotes on an OOM signal is the eligible
\* entry (on the accelerator, not excluded) with the oldest last_cache_hit.
C4_VictimIsLeastRecentlyUsed ==
    [][\A t \in SeqThreads :
          (pc[t] = "pop" /\ pc'[t] = "offload") =>
              /\ target'[t] \in Eligible(t)
              /\ \A k \in Eligible(t) : Hit(target'[t]) <= Hit(k)]_vars

\* ---------------------------------------------------------------- C5
\* C5: after every acquisition the keys resident on the accelerator are
\* exactly the cap most recently accessed keys.
C5_ResidentIsMostRecent ==
    \A t \in SeqThreads :
        (pc[t] = "acquired" /\ ~ramWasFull /\ ~inferOom) =>
            AccelKeys = MostRecent(cap)

\* ---------------------------------------------------------------- C6
\* C6: while a call holds an entry, no eviction step demotes it from the
\* accelerator or removes it from the cache.
C6_LeasedNeverEvicted ==
    [][\A k \in Keys :
          (models[k] # None /\ Leased(models[k])) =>
              /\ models'[k] = models[k]
              /\ device[models[k]] = "cuda" => device'[models[k]] = "cuda"]_vars

\* ---------------------------------------------------------------- C7
\* C7: when work raises an error that is not an accelerator OOM,
\* execute_on_cuda ends at once with that same error: work is not invoked
\* again, nothing is demoted or discarded, the cache mapping and every
\* residency tier are unchanged.
C7_NonOomPropagates ==
    [][\A t \in SeqThreads :
          ( /\ pc[t] = "try"
            /\ pc'[t] # "try"
            /\ Last(trace'[t]).res \in NonOomErrors )
          => /\ pc'[t] = "run_done"
             /\ runResult'[t] = Last(trace'[t]).res
             /\ models' = models
             /\ order' = order
             /\ device' = device
             /\ last_cache_hit' = last_cache_hit
             /\ cached_models' = cached_models]_vars

\* A non-OOM RuntimeError ended a run that still had entries to evict.
C7_Witness ==
    \E t \in SeqThreads :
        /\ pc[t] = "run_done"
        /\ runResult[t] = OtherRuntimeError
        /\ k0[t] >= 1
        /\ cached_models[t] # <<>>

\* ---------------------------------------------------------------- C8
\* C8: whenever execute_on_cuda gives up after an OOM signal with nothing
\* left to evict, the error it raises is the "Not enough CUDA memory" one.
C8_GiveUpRaisesNotEnoughMemory ==
    \A t \in SeqThreads :
        ( /\ pc[t] = "run_done"
          /\ runResult[t] # Ok
          /\ trace[t] # <<>>
          /\ Last(WorkEvents(trace[t])).res \in OomErrors )
        => runResult[t] = NotEnoughCudaMemory

\* ---------------------------------------------------------------- C9
\* C9 as stated: get_model on a key whose last operation was
\* offload_model_to_cpu returns without invoking the loader.
C9_DemoteReacquireNeverLoads ==
    \A t \in SeqThreads :
        (pc[t] = "as_base" /\ demoted[key[t]] # 0) => ~loaded[t]

\* C9 amended: in a sequence of calls, when offload_model_to_cpu kept the
\* target on the host and no later eviction discarded it, get_model returns
\* that same cached entry without invoking the loader.
C9_KeptDemoteReacquire ==
    \A t \in SeqThreads :
        (pc[t] = "as_base" /\ demoted[key[t]] > 0) =>
            /\ ~loaded[t]
            /\ model[t] = demoted[key[t]]
            /\ models[key[t]] = demoted[key[t]]

C9_Witness ==
    \E t \in SeqThreads :
        /\ pc[t] = "as_base"
        /\ demoted[key[t]] > 0
        /\ device[model[t]] = "cpu"

\* ---------------------------------------------------------------- C10
\* C10: for concurrent get_model calls on one key with no eviction of the
\* key, the loader runs at most once and every caller holds the same entry.
C10_LoadAtMostOnce ==
    \A k \in Keys :
        k \notin evicted =>
            /\ loads[k] <= 1
            /\ \A t1, t2 \in Threads :
                  ( /\ key[t1] = k /\ key[t2] = k
                    /\ model[t1] # None /\ model[t2] # None )
                  => model[t1] = model[t2]

\* ---------------------------------------------------------------- C17
OomCount(tr) ==
    Len(SelectSeq(tr, LAMBDA e : e.ev = "work" /\ e.res \in OomErrors))

\* C17: when work fails with OOM fewer times than there were evictable
\* entries at the start, execute_on_cuda ends with what work returned (or
\* with work's own error), never with "Not enough CUDA memory", and it has
\* taken exactly one entry off the accelerator per OOM failure.
C17_FewerOomsThanEvictable ==
    \A t \in SeqThreads :
        (pc[t] = "run_done" /\ OomCount(trace[t]) < k0[t]) =>
            LET dem == DemoteEvents(trace[t])
            IN  /\ runResult[t] = Last(WorkEvents(trace[t])).res
                /\ runResult[t] # NotEnoughCudaMemory
                /\ Len(dem) = OomCount(trace[t])
                /\ \A i, j \in 1..Len(dem) : dem[i].key = dem[j].key => i = j
                /\ \A i \in 1..Len(dem) : dem[i].key \notin AccelKeys

\* One OOM with two evictable entries: the retry succeeded.
C17_Witness ==
    \E t \in SeqThreads :
        /\ pc[t] = "run_done"
        /\ k0[t] = 2
        /\ OomCount(trace[t]) = 1
        /\ runResult[t] = Ok

\* ---------------------------------------------------------------- C18
\* C18: a step of offload_model_to_cpu made for a running execute_on_cuda
\* never changes the device of a pipeline in that run's ignored_models, and
\* never has such a pipeline as its target.
C18_ExcludedNeverDemoted ==
    [][\A t \in SeqThreads :
          pc[t] = "offload" =>
              \A o \in ignored[t] :
                  /\ device'[o] = device[o]
                  /\ models[target[t]] # o]_vars

\* An inference run demoted another entry while its own pipeline stayed put.
C18_Witness ==
    \E t \in SeqThreads :
        /\ pc[t] = "empty_cache"
        /\ work[t] = "infer"
        /\ ignored[t] = {model[t]}
        /\ device[model[t]] = "cuda"
        /\ Len(DemoteEvents(trace[t])) >= 1

\* ---------------------------------------------------------------- C19
\* C19: while RAM is short offload_model_to_cpu discards host entries one at
\* a time, each time the one with the oldest last_cache_hit among those
\* remaining; when it returns, the target is off the accelerator: removed
\* from the cache if the host tier ran out, on the host otherwise.
C19_DiscardsOldestHostEntry ==
    [][\A t \in SeqThreads :
          /\ (pc[t] = "offload" /\ pc'[t] = "offload") =>
                \A k \in Keys :
                    (models[k] # None /\ models'[k] = None) =>
                        /\ k \in Range(host_models[t])
                        /\ \A j \in Range(host_models[t]) : Hit(k) <= Hit(j)
          /\ (pc[t] = "offload" /\ pc'[t] = "empty_cache") =>
                /\ target[t] \notin AccelKeys'
                /\ \/ models'[target[t]] = None /\ host_models[t] = <<>>
                   \/ target[t] \in HostKeys']_vars

\* ---------------------------------------------------------------- C11
\* C11: when a call that requested a named sampler leaves change_scheduler
\* (the body returned, the body raised, or from_config raised),
\* pipe.scheduler is the instance that was active when the scope was entered.
C11_SchedulerRestored ==
    \A t \in SeqThreads :
        (pc[t] = "exit" /\ scheduler_name[t] # NoName
                        /\ preSched[t] # NoScheduler) =>
            scheduler[model[t]] = preSched[t]

\* The scoped body raised under a swapped-in sampler and the call has left
\* the scope.
C11_Witness ==
    \E t \in SeqThreads :
        /\ pc[t] = "exit"
        /\ scheduler_name[t] # NoName
        /\ original_scheduler[t] = preSched[t]
        /\ bodyRes[t] \in InferenceErrors
        /\ scheduler[model[t]] # NewScheduler(t)

\* ---------------------------------------------------------------- C12
\* C12: if a step of the overlay reversal raised (unfuse_lora, set_adapters
\* or unload_lora_weights), the call's key is absent from self.models when
\* the call ends.
C12_TeardownFailureEvicts ==
    \A t \in SeqThreads :
        (pc[t] = "exit" /\ tdFailed[t]) => models[key[t]] = None

\* ---------------------------------------------------------------- C13
\* C13: a failure of the overlay reversal is not surfaced: the call ends
\* with what the scoped body returned or raised, the sampler is restored and
\* the entry is evicted.
C13_TeardownFailureNotSurfaced ==
    \A t \in SeqThreads :
        (pc[t] = "exit" /\ tdFailed[t]) =>
            /\ outcome[t] = bodyRes[t]
            /\ scheduler[model[t]] = preSched[t]
            /\ KeyAbsent(key[t])

\* ---------------------------------------------------------------- C16
\* C16: a named override whose class is neither in the pipeline's
\* compatibles nor LCMScheduler makes the call fail with the compatibility
\* ValueError in that very step, with no sampler swap, no adapter loaded or
\* fused and the cache untouched; LCMScheduler is accepted although it is
\* not declared compatible.
C16_CompatibilityChecked ==
    [][\A t \in SeqThreads :
          ( /\ pc[t] = "acquired"
            /\ pc'[t] # "acquired"
            /\ runResult[t] = Ok
            /\ scheduler_name[t] # NoName )
          => LET cls == SUPPORTED_SCHEDULERS[scheduler_name[t]]
             IN  /\ (cls \notin Compatibles(key[t]) /\ cls # "LCMScheduler")
                       => /\ outcome'[t] = CompatibilityError
                          /\ pc'[t] = "exit"
                          /\ ltrace'[t] = <<>>
                          /\ UNCHANGED <<cacheVars, pipeVars>>
                 /\ (cls \in Compatibles(key[t]) \/ cls = "LCMScheduler")
                       => /\ pc'[t] = "construct"
                          /\ original_scheduler'[t] = scheduler[model[t]]
                          /\ outcome'[t] = NoResult]_vars

\* An incompatible override was rejected: the pipeline is on the accelerator
\* with its own sampler and no adapter.
C16_Witness ==
    \E t \in SeqThreads :
        /\ pc[t] = "exit"
        /\ outcome[t] = CompatibilityError
        /\ SUPPORTED_SCHEDULERS[scheduler_name[t]] # "LCMScheduler"
        /\ n_loras[t] > 0
        /\ scheduler[model[t]] = OwnScheduler
        /\ adapters[model[t]] = 0

\* ---------------------------------------------------------------- C20
\* C20: a cached entry whose key no call is inside a load_model scope for
\* has no adapter loaded and nothing fused.
C20_NoOverlayOutsideScope ==
    \A k \in Keys :
        ( /\ models[k] # None
          /\ \A t \in Threads : key[t] = k => pc[t] \in {"idle", "exit"} )
        => /\ adapters[models[k]] = 0
           /\ ~fused[models[k]]

\* ---------------------------------------------------------------- C14
\* C14: over any sequence or interleaving of download_to calls, at most one
\* transfer of a remote reference is carried through to its cache path:
\* once the file is published no other resolution transfers it.
C14_AtMostOneTransfer ==
    \A p \in Paths : moved[p] <= 1

\* ---------------------------------------------------------------- C15
\* C15: a file present at a cache path is the whole remote file: it got
\* there only after its transfer completed and its size was verified, so no
\* partial artifact is visible.
C15_NoPartialArtifact ==
    \A p \in Paths : files[p] # Missing => files[p] = RemoteSize

\* ---------------------------------------------------------------- C21
\* The adapter operations of merge_and_apply_loras in the call's ltrace.
Applied(t) ==
    SelectSeq(ltrace[t], LAMBDA e : e \in {"resolve", "load", "set", "fuse"})

\* C21: with n overlays the operations of merge_and_apply_loras are, in
\* order, n resolutions, n adapter loads, one set_adapters and one fuse: no
\* fuse before the last load, at most one fuse, and none when a resolution
\* or a load failed; a call that reaches the scoped body has done them all.
C21_LoadAllThenFuse ==
    \A t \in SeqThreads :
        LET n == n_loras[t]
            ops == Applied(t)
        IN  /\ Len(ops) <= 2 * n + 2
            /\ \A i \in 1..Len(ops) :
                 ops[i] = IF i <= n THEN "resolve"
                          ELSE IF i <= 2 * n THEN "load"
                          ELSE IF i = 2 * n + 1 THEN "set"
                          ELSE "fuse"
            /\ (n > 0 /\ pc[t] = "body") => Len(ops) = 2 * n + 2

\* Two overlays were resolved, loaded, set and fused, and the body runs.
C21_Witness ==
    \E t \in SeqThreads :
        /\ pc[t] = "body"
        /\ n_loras[t] >= 2
        /\ Applied(t) = <<"resolve", "resolve", "load", "load", "set", "fuse">>
        /\ fused[model[t]]

\* ---------------------------------------------------------------- C22
\* C22: with calls running concurrently, a run of execute_on_cuda demotes
\* at most as many entries as were evictable when it started, and it ends
\* with work's result, work's own error or the not-enough-memory error,
\* never with an error caused by another call having removed its target.
C22_ConcurrentRunsBounded ==
    \A t \in Threads :
        /\ Len(DemoteEvents(trace[t])) <= k0[t]
        /\ pc[t] = "run_done" =>
              runResult[t] \in {Ok, NotEnoughCudaMemory, CudaOomError}
                                  \cup InferenceErrors

\* ---------------------------------------------------------------- C23
\* C23: when concurrent calls have overridden the sampler of one shared
\* pipeline, once every scope has been left each pipeline's sampler is the
\* instance it had before any scope was entered.
C23_ConcurrentScopesRestore ==
    (\A t \in Threads : pc[t] \in {"idle", "exit"}) =>
        \A o \in ObjIds : device[o] # "none" => scheduler[o] = OwnScheduler
====
